---- MODULE Spec2Model ----
(***************************************************************************)
(* Model of modai.py: the two-stage comment moderation pipeline            *)
(* (process_comments, call_llama_moderation) and the report built over its *)
(* result (generate_report).                                               *)
(*                                                                         *)
(* Python values are dynamically typed.  Every Python value that can end   *)
(* up in a moderation record is modelled as a record of one shape          *)
(*     [t |-> type tag, n |-> int payload, s |-> str payload, b |-> bool]  *)
(* so that the type errors Python raises (comparing a str with an int,     *)
(* calling .title() on None) are explicit tests on the tag.                *)
(***************************************************************************)
EXTENDS Integers, Sequences, FiniteSets, TLC

VARIABLES df, min_severity, idx, result, llama_result, results, posted,
          pc, error, report

vars == <<df, min_severity, idx, result, llama_result, results, posted,
          pc, error, report>>

(***************************************************************************)
(* Bounds of the model.                                                    *)
(***************************************************************************)
MaxComments == 2

\* values of --min-severity that are explored (type=int: any integer)
MinSeverities == {-1, 0, 1, 6}

\* comment ids that occur in the input
CommentIds == {101, 102}

(***************************************************************************)
(* Python values.                                                          *)
(***************************************************************************)
PyInt(n) == [t |-> "int", n |-> n, s |-> "", b |-> FALSE]
PyStr(s) == [t |-> "str", n |-> 0, s |-> s, b |-> FALSE]
PyBool(b) == [t |-> "bool", n |-> 0, s |-> "", b |-> b]
PyNone == [t |-> "NoneType", n |-> 0, s |-> "", b |-> FALSE]

\* the Python test  v == True  (bool is a subclass of int: 1 == True)
EqTrue(v) == (v.t = "bool" /\ v.b) \/ (v.t = "int" /\ v.n = 1)

\* int(v) for the values that order against an int
NumOf(v) == IF v.t = "bool" THEN (IF v.b THEN 1 ELSE 0) ELSE v.n

\* v < int is defined for int and bool, a TypeError for str and None
Orderable(v) == v.t \in {"int", "bool"}

\* dict.update on a record: keys of d overwrite or extend those of r
DictUpdate(r, d) ==
    [k \in (DOMAIN r) \cup (DOMAIN d) |-> IF k \in DOMAIN d THEN d[k] ELSE r[k]]

EmptyDict == [k \in {} |-> PyNone]

(***************************************************************************)
(* The lexical filter.  better_profanity is an external library: a pure    *)
(* predicate of the comment text, here membership in the loaded word set.  *)
(***************************************************************************)
CensorWords == {"damn you"}

CommentTexts == {"nice video", "damn you"}

contains_profanity(text) == text \in CensorWords

\* rows of the input frame (validate_input_file: the three required columns)
Rows ==
    [comment_id : {PyInt(c) : c \in CommentIds},
     username : {PyStr("alice")},
     comment_text : {PyStr(x) : x \in CommentTexts}]

SeqsUpTo(S, n) == UNION {[1..m -> S] : m \in 0..n}

(***************************************************************************)
(* The body of the HTTP response (response.json()["choices"][0]            *)
(* ["message"]["content"]) is a string.  It is modelled as a sequence of   *)
(* lexical tokens: braces, brackets, key/value members, list items, a      *)
(* number literal, and prose (any text without braces).                    *)
(***************************************************************************)
Tok(c) == [c |-> c, k |-> "", v |-> PyNone]
KV(k, v) == [c |-> "kv", k |-> k, v |-> v]
Item(s) == [c |-> "item", k |-> "", v |-> PyStr(s)]
Num(n) == [c |-> "num", k |-> "", v |-> PyInt(n)]
Prose == Tok("prose")
Obj(members) == <<Tok("{")>> \o members \o <<Tok("}")>>

\* values json.loads can hand back, and None; one shape for all of them
NoneResult == [kind |-> "NoneType", d |-> EmptyDict, l |-> <<>>, n |-> 0]
DictResult(d) == [kind |-> "dict", d |-> d, l |-> <<>>, n |-> 0]
ListResult(l) == [kind |-> "list", d |-> EmptyDict, l |-> l, n |-> 0]
IntResult(n) == [kind |-> "int", d |-> EmptyDict, l |-> <<>>, n |-> n]

IsObjectText(c) ==
    /\ Len(c) >= 2
    /\ c[1].c = "{"
    /\ c[Len(c)].c = "}"
    /\ \A i \in 2..(Len(c) - 1) : c[i].c = "kv"

IsListText(c) ==
    /\ Len(c) >= 2
    /\ c[1].c = "["
    /\ c[Len(c)].c = "]"
    /\ \A i \in 2..(Len(c) - 1) : c[i].c = "item"

IsNumberText(c) == Len(c) = 1 /\ c[1].c = "num"

\* json.loads succeeds exactly on a whole JSON document
JsonValid(c) == IsObjectText(c) \/ IsListText(c) \/ IsNumberText(c)

\* the value json.loads returns on a valid document (a repeated key keeps
\* its last member)
json_loads(c) ==
    IF IsObjectText(c)
    THEN LET members == 2..(Len(c) - 1)
             keys == {c[i].k : i \in members}
             last(k) == CHOOSE i \in members :
                           c[i].k = k /\ \A j \in members : c[j].k = k => j <= i
         IN DictResult([k \in keys |-> c[last(k)].v])
    ELSE IF IsListText(c)
    THEN ListResult([i \in 1..(Len(c) - 2) |-> c[i + 1].v.s])
    ELSE IntResult(c[1].v.n)

\* str.find / str.rfind on a one-character needle: 0-based position, or -1
find(c, ch) ==
    IF \E i \in 1..Len(c) : c[i].c = ch
    THEN (CHOOSE i \in 1..Len(c) :
             c[i].c = ch /\ \A j \in 1..Len(c) : c[j].c = ch => i <= j) - 1
    ELSE -1

rfind(c, ch) ==
    IF \E i \in 1..Len(c) : c[i].c = ch
    THEN (CHOOSE i \in 1..Len(c) :
             c[i].c = ch /\ \A j \in 1..Len(c) : c[j].c = ch => j <= i) - 1
    ELSE -1

\* content[start:end] for start, end >= 0
Slice(c, start, end) == SubSeq(c, start + 1, end)

required_fields == {"is_offensive", "offense_type", "severity", "explanation"}

\* all(field in result for field in required_fields), for a dict or a list
AllRequired(r) ==
    IF r.kind = "dict"
    THEN required_fields \subseteq DOMAIN r.d
    ELSE required_fields \subseteq {r.l[i] : i \in 1..Len(r.l)}

\* the except json.JSONDecodeError branch: brace-scanning fallback
FallbackParse(content) ==
    LET start == find(content, "{")
        end == rfind(content, "}") + 1
    IN IF start # -1 /\ end # 0
       THEN IF JsonValid(Slice(content, start, end))
            THEN json_loads(Slice(content, start, end))
            ELSE NoneResult
       ELSE NoneResult

\* the try branch: direct parse and the required-field check
DirectParse(content) ==
    LET parsed == json_loads(content)
    IN IF parsed.kind = "int"
       THEN NoneResult
       ELSE IF AllRequired(parsed) THEN parsed ELSE NoneResult

\* resp.http: "ok", or the way the request failed
call_llama_moderation(resp) ==
    IF resp.http # "ok"
    THEN NoneResult
    ELSE IF JsonValid(resp.content)
         THEN DirectParse(resp.content)
         ELSE FallbackParse(resp.content)

\* truth value of  if llama_result:
Truthy(r) ==
    CASE r.kind = "NoneType" -> FALSE
      [] r.kind = "dict" -> DOMAIN r.d # {}
      [] r.kind = "list" -> Len(r.l) > 0
      [] OTHER -> r.n # 0

(***************************************************************************)
(* Responses of the remote endpoint that are explored.                     *)
(***************************************************************************)
Full(off, typ, sev) ==
    <<KV("is_offensive", off), KV("offense_type", typ),
      KV("severity", sev), KV("explanation", PyStr("x"))>>

Contents ==
    { Obj(Full(PyBool(TRUE), PyStr("toxicity"), PyInt(7))),
      Obj(Full(PyBool(FALSE), PyStr("none"), PyInt(1))),
      Obj(Full(PyBool(TRUE), PyStr("hate_speech"), PyInt(99))),
      Obj(Full(PyBool(TRUE), PyStr("toxicity"), PyStr("7"))),
      Obj(Full(PyBool(TRUE), PyNone, PyInt(5))),
      Obj(Full(PyBool(TRUE), PyStr("toxicity"), PyInt(0))),
      Obj(Full(PyBool(TRUE), PyStr("toxicity"), PyInt(7))
            \o <<KV("comment_id", PyInt(999))>>),
      Obj(<<KV("severity", PyInt(7))>>),
      <<Prose>> \o Obj(Full(PyBool(TRUE), PyStr("toxicity"), PyInt(7))),
      <<Prose>> \o Obj(<<KV("severity", PyInt(7))>>),
      <<Prose>> \o Obj(<<>>),
      <<Prose>>,
      <<Tok("}"), Prose, Tok("{")>>,
      Obj(<<KV("severity", PyInt(7))>>) \o <<Prose>> \o Obj(<<>>),
      <<Num(5)>>,
      <<Tok("[")>> \o <<Item("is_offensive"), Item("offense_type"),
                        Item("severity"), Item("explanation")>> \o <<Tok("]")>> }

Responses ==
    [http : {"ok"}, content : Contents]
        \cup [http : {"RequestException", "BadEnvelope"}, content : {<<>>}]

(***************************************************************************)
(* process_comments                                                        *)
(***************************************************************************)
\* the record a loop iteration starts from
InitialRecord(row) ==
    [comment_id |-> row.comment_id,
     username |-> row.username,
     comment_text |-> row.comment_text,
     is_offensive |-> PyBool(FALSE),
     offense_type |-> PyNone,
     severity |-> PyInt(0),
     explanation |-> PyStr("Pending analysis")]

\* the fields written when the lexical filter flags the comment
LocalFlag ==
    [is_offensive |-> PyBool(TRUE),
     offense_type |-> PyStr("profanity"),
     severity |-> PyInt(5),
     explanation |-> PyStr("Detected by local profanity filter")]

\* variant of MarkFailed that forgets to write the failure marker
MarkFailedKeepsPending(r) == r

\* the else branch of  if llama_result:
MarkFailed(r) == [r EXCEPT !.explanation = PyStr("Analysis failed")]

\* variant of Gate that compares with <= instead of <
GateInclusive(r, m) ==
    IF NumOf(r.severity) <= m
    THEN [r EXCEPT !.is_offensive = PyBool(FALSE)]
    ELSE r

\* the severity threshold, for a severity that orders against an int
Gate(r, m) ==
    IF NumOf(r.severity) < m
    THEN [r EXCEPT !.is_offensive = PyBool(FALSE)]
    ELSE r

\* columns of pd.DataFrame(list of dicts): the union of the keys
Columns(rs) == UNION {DOMAIN rs[i] : i \in 1..Len(rs)}

Init ==
    /\ df \in SeqsUpTo(Rows, MaxComments)
    /\ min_severity \in MinSeverities
    /\ idx = 1
    /\ result = InitialRecord([comment_id |-> PyNone, username |-> PyNone,
                               comment_text |-> PyNone])
    /\ llama_result = NoneResult
    /\ results = <<>>
    /\ posted = {}
    /\ pc = "loop"
    /\ error = "none"
    /\ report = [total |-> 0, offensive_count |-> 0, top |-> <<>>]

\* variant of EvaluateLocal that still sends the flagged comment to the
\* remote model
EvaluateLocalThenRemote ==
    /\ pc = "loop"
    /\ idx <= Len(df)
    /\ contains_profanity(df[idx].comment_text.s)
    /\ result' = DictUpdate(InitialRecord(df[idx]), LocalFlag)
    /\ posted' = posted \cup {idx}
    /\ pc' = "gate"
    /\ UNCHANGED <<df, min_severity, idx, llama_result, results, error, report>>

\* one iteration up to the threshold, the lexical filter flags the comment
EvaluateLocal ==
    /\ pc = "loop"
    /\ idx <= Len(df)
    /\ contains_profanity(df[idx].comment_text.s)
    /\ result' = DictUpdate(InitialRecord(df[idx]), LocalFlag)
    /\ pc' = "gate"
    /\ UNCHANGED <<df, min_severity, idx, llama_result, results, posted,
                   error, report>>

\* one iteration up to the threshold, the comment goes to the remote model
EvaluateRemote ==
    /\ pc = "loop"
    /\ idx <= Len(df)
    /\ ~contains_profanity(df[idx].comment_text.s)
    /\ \E resp \in Responses :
          LET r == call_llama_moderation(resp)
              fresh == InitialRecord(df[idx])
          IN /\ llama_result' = r
             /\ posted' = posted \cup {idx}
             /\ IF Truthy(r)
                THEN IF r.kind = "dict"
                     THEN /\ result' = DictUpdate(fresh, r.d)
                          /\ pc' = "gate"
                          /\ error' = error
                     ELSE \* dict.update of a list of field names
                          /\ result' = fresh
                          /\ pc' = "raised"
                          /\ error' = "ValueError"
                ELSE /\ result' = MarkFailed(fresh)
                     /\ pc' = "gate"
                     /\ error' = error
    /\ UNCHANGED <<df, min_severity, idx, results, report>>

\* the severity threshold and results.append
ThresholdGate ==
    /\ pc = "gate"
    /\ IF Orderable(result.severity)
       THEN /\ result' = Gate(result, min_severity)
            /\ results' = Append(results, Gate(result, min_severity))
            /\ idx' = idx + 1
            /\ pc' = "loop"
            /\ error' = error
       ELSE \* '<' not supported between str and int
            /\ pc' = "raised"
            /\ error' = "TypeError"
            /\ UNCHANGED <<result, results, idx>>
    /\ UNCHANGED <<df, min_severity, llama_result, posted, report>>

\* the loop ends: return pd.DataFrame(results)
Return ==
    /\ pc = "loop"
    /\ idx > Len(df)
    /\ pc' = "returned"
    /\ UNCHANGED <<df, min_severity, idx, result, llama_result, results,
                   posted, error, report>>

(***************************************************************************)
(* generate_report                                                         *)
(***************************************************************************)
\* number of rows the ranking shows: head(5)
TopN == 5

\* row labels of  analyzed_df[analyzed_df["is_offensive"] == True]
OffensiveRows(rs) == {i \in 1..Len(rs) : EqTrue(rs[i].is_offensive)}

\* sort_values("severity", ascending=False) with the default kind
\* ("quicksort", which is not stable): any order of the rows that is
\* non-increasing in severity
SortedOrders(rs, rows) ==
    {p \in [1..Cardinality(rows) -> rows] :
        /\ \A a, b \in 1..Cardinality(rows) : a # b => p[a] # p[b]
        /\ \A a, b \in 1..Cardinality(rows) :
              a < b => NumOf(rs[p[a]].severity) >= NumOf(rs[p[b]].severity)}

head(p, n) == SubSeq(p, 1, IF Len(p) < n THEN Len(p) ELSE n)

GenerateReport ==
    /\ pc = "returned"
    /\ IF "is_offensive" \notin Columns(results)
       THEN \* a frame built from an empty list has no columns
            /\ pc' = "report_raised"
            /\ error' = "KeyError"
            /\ report' = report
       ELSE IF Len(results) = 0
       THEN /\ pc' = "report_raised"
            /\ error' = "ZeroDivisionError"
            /\ report' = report
       ELSE LET rows == OffensiveRows(results)
            IN IF rows = {}
               THEN /\ pc' = "reported"
                    /\ error' = error
                    /\ report' = [total |-> Len(results),
                                  offensive_count |-> 0,
                                  top |-> <<>>]
               ELSE \E p \in SortedOrders(results, rows) :
                      LET top_offenders == head(p, TopN)
                      IN IF \E a \in 1..Len(top_offenders) :
                              results[top_offenders[a]].offense_type.t # "str"
                         THEN \* None has no attribute title
                              /\ pc' = "report_raised"
                              /\ error' = "AttributeError"
                              /\ report' = report
                         ELSE /\ pc' = "reported"
                              /\ error' = error
                              /\ report' = [total |-> Len(results),
                                            offensive_count |-> Cardinality(rows),
                                            top |-> top_offenders]
    /\ UNCHANGED <<df, min_severity, idx, result, llama_result, results, posted>>

Next ==
    \/ EvaluateLocal
    \/ EvaluateRemote
    \/ ThresholdGate
    \/ Return
    \/ GenerateReport

Spec == Init /\ [][Next]_vars

(***************************************************************************)
(* Properties                                                              *)
(***************************************************************************)
Flagged(i) == contains_profanity(df[i].comment_text.s)

\* C1: when process_comments returns, the record set has the length of the
\* input and record i carries the comment_id of input comment i.
C1_OrderPreserved ==
    pc = "returned" =>
        /\ Len(results) = Len(df)
        /\ \A i \in 1..Len(results) : results[i].comment_id = df[i].comment_id

\* C2: the remote model is called only for comments the lexical filter did
\* not flag, and a flagged comment reaches the threshold with
\* offense_type "profanity", severity 5 and the local-filter explanation.
C2_LocalShortCircuit ==
    /\ \A i \in posted : ~Flagged(i)
    /\ (pc = "gate" /\ Flagged(idx)) =>
          /\ idx \notin posted
          /\ result.offense_type = PyStr("profanity")
          /\ result.severity = PyInt(5)
          /\ result.explanation = PyStr("Detected by local profanity filter")

\* a flagged comment stands at the threshold after an earlier comment went
\* to the remote model
C2_Witness ==
    /\ pc = "gate"
    /\ Flagged(idx)
    /\ posted # {}
    /\ result.severity = PyInt(5)

\* C3: when the remote call for a comment returned None, the record that is
\* appended for it is the initial record with explanation "Analysis failed"
\* (is_offensive false, offense_type None, severity 0), and the loop moves
\* on to the next comment.
C3_FailureAbsorbed ==
    [][(pc = "gate" /\ idx \in posted /\ llama_result.kind = "NoneType") =>
          /\ pc' = "loop"
          /\ idx' = idx + 1
          /\ results' = Append(results,
                 [comment_id |-> df[idx].comment_id,
                  username |-> df[idx].username,
                  comment_text |-> df[idx].comment_text,
                  is_offensive |-> PyBool(FALSE),
                  offense_type |-> PyNone,
                  severity |-> PyInt(0),
                  explanation |-> PyStr("Analysis failed")])]_vars

\* a batch of two comments whose remote calls both failed has returned,
\* with one failure record per comment
C3_Witness ==
    /\ pc = "returned"
    /\ Len(df) = 2
    /\ posted = {1, 2}
    /\ \A i \in 1..2 :
          /\ results[i].explanation = PyStr("Analysis failed")
          /\ results[i].severity = PyInt(0)
          /\ results[i].is_offensive = PyBool(FALSE)

\* C4: evaluating a comment never raises: the loop never ends in an
\* exception.
C4_NeverRaises == pc # "raised"

\* C5: the appended record is offensive iff the record was offensive before
\* the threshold and its severity is at least min_severity; every other
\* field keeps its value; and a flag that survives a threshold survives
\* every lower one.
C5_ThresholdGate ==
    [][(pc = "gate" /\ pc' = "loop") =>
          LET pre == result
              post == results'[Len(results')]
          IN /\ (post.is_offensive = PyBool(TRUE)) <=>
                    (pre.is_offensive = PyBool(TRUE)
                        /\ NumOf(pre.severity) >= min_severity)
             /\ DOMAIN post = DOMAIN pre
             /\ \A k \in (DOMAIN pre) \ {"is_offensive"} : post[k] = pre[k]
             /\ \A m1, m2 \in MinSeverities :
                   (m1 <= m2 /\ Gate(pre, m2).is_offensive = PyBool(TRUE))
                       => Gate(pre, m1).is_offensive = PyBool(TRUE)]_vars

\* the threshold has suppressed the flag of a record and has kept the flag
\* of another one
C5_Witness ==
    /\ Len(results) = 2
    /\ results[1].is_offensive = PyBool(FALSE)
    /\ results[1].severity = PyInt(5)
    /\ results[1].offense_type = PyStr("profanity")
    /\ results[2].is_offensive = PyBool(TRUE)
    /\ results[2].severity = PyInt(7)

\* C6: an offensive record has a non-null offense_type and severity >= 1.
C6_RecordInvariant ==
    \A i \in 1..Len(results) :
        results[i].is_offensive = PyBool(TRUE) =>
            /\ results[i].offense_type # PyNone
            /\ results[i].severity.t = "int"
            /\ results[i].severity.n >= 1

\* C7: the severity of every record is an integer in 0..10.
C7_SeverityRange ==
    \A i \in 1..Len(results) :
        /\ results[i].severity.t = "int"
        /\ results[i].severity.n \in 0..10

\* C8: generate_report on a record set without records completes, with
\* total 0 and offensive count 0.
C8_EmptyReport ==
    (Len(results) = 0 /\ pc \in {"reported", "report_raised"}) =>
        /\ pc = "reported"
        /\ report.total = 0
        /\ report.offensive_count = 0
        /\ report.top = <<>>

\* C9: an object returned by call_llama_moderation has all four required
\* fields, on the direct path and on the fallback path.
C9_RequiredFields ==
    llama_result.kind = "dict" => required_fields \subseteq DOMAIN llama_result.d

\* C10: the ranking lists at most 5 rows, all offensive, in non-increasing
\* severity, no unlisted offensive row is more severe than a listed one, and
\* rows of equal severity appear (and are kept at the cut) in input order.
C10_TopFive ==
    pc = "reported" =>
        LET top == report.top
            listed == {top[a] : a \in 1..Len(top)}
            rows == OffensiveRows(results)
            sev(i) == NumOf(results[i].severity)
        IN /\ Len(top) <= 5
           /\ listed \subseteq rows
           /\ \A a, b \in 1..Len(top) : a < b => sev(top[a]) >= sev(top[b])
           /\ \A u \in rows \ listed : \A l \in listed : sev(u) <= sev(l)
           /\ \A a, b \in 1..Len(top) :
                 (a < b /\ sev(top[a]) = sev(top[b])) => top[a] < top[b]
           /\ \A u \in rows \ listed : \A l \in listed :
                 sev(u) = sev(l) => l < u

====
